---- MODULE Spec2Model ----
(***************************************************************************)
(* Entity resolution and action dispatch of the Nextcloud Deck MCP server: *)
(* the five tool handlers (deck-handlers.ts) and the DeckClient methods    *)
(* they call (deck-client.ts).  One request is a chain of awaits; every    *)
(* action below is the piece of handler code that runs between two awaits, *)
(* from the return of one remote call up to the issuing of the next.       *)
(***************************************************************************)
EXTENDS Integers, Sequences, FiniteSets, TLC

(***************************************************************************)
(* Bounds of the remote workspace served to the fetches.                   *)
(***************************************************************************)
MaxBoards == 2
MaxStacks == 2
MaxCards == 2

VARIABLES
    remote,     \* the remote Kanban hierarchy (external collaborator)
    pc,         \* await point the request is suspended at
    req,        \* the tool call being handled: [tool, args]
    calls,      \* remote calls issued by the request so far, with outcome
    boardId,    \* local `boardId` of createCard / updateCard / deleteCard
    stackId,    \* local `stackId` of updateCard / deleteCard
    boards,     \* local `boards` of the scan: the fetched board list
    stacks,     \* local `stacks` of the board-wide card read
    idx,        \* position of the running for-of loop in its list
    acc,        \* local `allCards` of the board-wide card read
    result,     \* what the tool call returned or threw
    first,      \* the finished request a repeated request is compared with
    other       \* the frame of a second request, suspended at an await

vars == <<remote, pc, req, calls, boardId, stackId, boards, stacks, idx, acc, result,
          first, other>>

(***************************************************************************)
(* JavaScript values.  `undefined` in a numeric position is 0 (ids of the  *)
(* remote API are positive); an object is a record holding exactly the     *)
(* fields that are present.                                                *)
(***************************************************************************)
Undefined == 0
DefaultOrder == 999

Has(o, f) == f \in DOMAIN o
Num(o, f) == IF Has(o, f) THEN o[f] ELSE Undefined
\* !x for a numeric field: undefined and 0 are both falsy
Falsy(o, f) == ~Has(o, f) \/ o[f] = 0
Pick(o, fs) == [f \in (fs \cap DOMAIN o) |-> o[f]]
Omit(o, fs) == [f \in (DOMAIN o \ fs) |-> o[f]]
\* { ...o, k: v }
With(o, k, v) == [f \in (DOMAIN o \cup {k}) |-> IF f = k THEN v ELSE o[f]]
NoFields == Pick([x |-> 0], {})

RECURSIVE SetToSeq(_)
SetToSeq(S) ==
    IF S = {} THEN <<>>
    ELSE LET m == CHOOSE x \in S : \A y \in S : x <= y
         IN <<m>> \o SetToSeq(S \ {m})

SeqToSet(s) == {s[k] : k \in 1..Len(s)}

(***************************************************************************)
(* Strings that are searched are sequences of characters.                  *)
(***************************************************************************)
toLowerCase(s) ==
    [k \in 1..Len(s) |->
        CASE s[k] = "A" -> "a"
          [] s[k] = "B" -> "b"
          [] OTHER -> s[k]]

\* String.prototype.includes
includes(s, t) ==
    \E k \in 0..(Len(s) - Len(t)) : SubSeq(s, k + 1, k + Len(t)) = t

(***************************************************************************)
(* The remote workspace.  Boards are listed in descending id, a board's    *)
(* stacks in ascending id, a stack's cards in ascending id.  Board b owns  *)
(* the stack ids (b - 1) * MaxStacks + 1 .. b * MaxStacks.                 *)
(***************************************************************************)
BoardIds == 1..MaxBoards
StackIdsOf(b) == ((b - 1) * MaxStacks + 1)..(b * MaxStacks)
StackIds == 1..(MaxBoards * MaxStacks)
CardIds == 1..MaxCards

BoardOf(s) == ((s - 1) \div MaxStacks) + 1

BoardExists(h, b) == b \in 1..h.nb
StackExists(h, s) ==
    \E b \in 1..h.nb : s \in StackIdsOf(b) /\ s < (b - 1) * MaxStacks + 1 + h.ns[b]

\* Card 1 may sit in any stack or in none; card c > 1 sits in stack c - 1
\* whenever the workspace holds that stack.
Hierarchies ==
    { h \in [nb : 0..MaxBoards,
             ns : [BoardIds -> 0..MaxStacks],
             at : [CardIds -> {0} \cup StackIds]] :
        /\ \A b \in BoardIds : b > h.nb => h.ns[b] = 0
        /\ h.at[1] # 0 => StackExists(h, h.at[1])
        /\ \A c \in CardIds \ {1} :
              h.at[c] = IF StackExists(h, c - 1) THEN c - 1 ELSE 0 }

CardExists(h, c) == c \in CardIds /\ h.at[c] # 0

CardTitle(c) == IF c % 2 = 1 THEN <<"A", "b">> ELSE <<"b", "b">>
CardDescription(c) == IF c % 2 = 0 THEN <<"a", "B">> ELSE <<>>
CardArchived(c) == c % 2 = 0
CardDone(c) == IF c % 3 = 1 THEN "true" ELSE IF c % 3 = 2 THEN "false" ELSE "null"

DeckCard(c) ==
    [id |-> c, title |-> CardTitle(c), description |-> CardDescription(c),
     archived |-> CardArchived(c), done |-> CardDone(c)]

CardsOfStack(h, s) ==
    LET ids == SetToSeq({c \in CardIds : h.at[c] = s})
    IN [k \in 1..Len(ids) |-> DeckCard(ids[k])]

DeckStack(h, s) == [id |-> s, cards |-> CardsOfStack(h, s)]

LabelList(b) == <<[id |-> b, title |-> "L"]>>
DeckBoard(b) == [id |-> b, labels |-> LabelList(b)]
BoardList(h) == [k \in 1..h.nb |-> DeckBoard(h.nb + 1 - k)]
StackList(h, b) == [k \in 1..h.ns[b] |-> DeckStack(h, (b - 1) * MaxStacks + k)]
CommentList(c) == <<[id |-> c, message |-> "m"]>>
AttachmentList(c) == <<[id |-> c, type |-> "file"]>>

(***************************************************************************)
(* Remote calls.  A call is what reaches the wire: JSON.stringify drops    *)
(* the fields whose value is undefined, so a body holds present fields     *)
(* only.  `via` tells DeckClient.request from the direct fetch of the      *)
(* comment sub-API.                                                        *)
(***************************************************************************)
request(method, endpoint, body) ==
    [via |-> "request", method |-> method, path |-> endpoint,
     hasBody |-> TRUE, body |-> body]

requestNoBody(method, endpoint) ==
    [via |-> "request", method |-> method, path |-> endpoint,
     hasBody |-> FALSE, body |-> NoFields]

fetchComments(method, endpoint, hasBody, body) ==
    [via |-> "fetch", method |-> method, path |-> endpoint,
     hasBody |-> hasBody, body |-> body]

\* x ?? d for a numeric field
OrElse(o, f, d) == IF Has(o, f) THEN o[f] ELSE d

getBoards == requestNoBody("GET", <<"boards">>)
getBoard(id) == requestNoBody("GET", <<"boards", id>>)
createBoard(data) == request("POST", <<"boards">>, data)
updateBoard(id, data) == request("PUT", <<"boards", id>>, data)
deleteBoard(id) == requestNoBody("DELETE", <<"boards", id>>)

getStacks(b) == requestNoBody("GET", <<"boards", b, "stacks">>)
createStack(data) ==
    request("POST", <<"boards", Num(data, "boardId"), "stacks">>,
            Pick(data, {"title"}) @@ [order |-> OrElse(data, "order", DefaultOrder)])
updateStack(b, s, data) == request("PUT", <<"boards", b, "stacks", s>>, data)
deleteStack(b, s) == requestNoBody("DELETE", <<"boards", b, "stacks", s>>)

getCards(s) == requestNoBody("GET", <<"stacks", s>>)
getCard(c) == requestNoBody("GET", <<"cards", c>>)

\* the terminal POST of createCard, after `boardId` is known
createCardPost(b, data) ==
    request("POST", <<"boards", b, "stacks", Num(data, "stackId"), "cards">>,
            Pick(data, {"title"})
              @@ [type |-> IF Has(data, "type") THEN data.type ELSE "plain",
                  order |-> OrElse(data, "order", DefaultOrder),
                  description |-> IF Has(data, "description") THEN data.description ELSE "",
                  duedate |-> IF Has(data, "duedate") THEN data.duedate ELSE "null"])

\* const { cardId, boardId: _, ...updateData } = data
updateData(data) == Omit(data, {"cardId", "boardId"})

\* the terminal PUT of updateCard, after `boardId` and `stackId` are known
updateCardPut(b, s, data) ==
    request("PUT", <<"boards", b, "stacks", s, "cards", Num(data, "cardId")>>,
            updateData(data))

\* the terminal DELETE of deleteCard
deleteCardDelete(b, s, c) ==
    requestNoBody("DELETE", <<"boards", b, "stacks", s, "cards", c>>)

createLabel(data) ==
    request("POST", <<"boards", Num(data, "boardId"), "labels">>,
            Pick(data, {"title", "color"}))
updateLabel(b, l, data) == request("PUT", <<"boards", b, "labels", l>>, data)
deleteLabel(b, l) == requestNoBody("DELETE", <<"boards", b, "labels", l>>)

getComments(c) == fetchComments("GET", <<"cards", c, "comments">>, FALSE, NoFields)
createComment(data) ==
    fetchComments("POST", <<"cards", Num(data, "cardId"), "comments">>, TRUE,
                  Pick(data, {"message"}))
deleteComment(c, k) ==
    fetchComments("DELETE", <<"cards", c, "comments", k>>, FALSE, NoFields)

\* variant: the attachment list is requested with the method of createAttachment
getAttachmentsByPost(c) == requestNoBody("POST", <<"cards", c, "attachments">>)
getAttachments(c) == requestNoBody("GET", <<"cards", c, "attachments">>)
createAttachment(data) ==
    request("POST", <<"cards", Num(data, "cardId"), "attachments">>,
            Pick(data, {"type", "data"}))
deleteAttachment(c, a) == requestNoBody("DELETE", <<"cards", c, "attachments", a>>)

moveCard(c, params) ==
    request("PUT", <<"cards", c, "reorder">>,
            Pick(params, {"stackId"}) @@ [order |-> OrElse(params, "order", DefaultOrder)])
\* variant: reorder sends the order as given, without the default
reorderCardAsGiven(c, params) ==
    request("PUT", <<"cards", c, "reorder">>, Pick(params, {"stackId", "order"}))
reorderCard(c, params) == moveCard(c, params)
assignUser(c, params) ==
    request("PUT", <<"cards", c, "assignUser">>, Pick(params, {"userId"}))
unassignUser(c, params) ==
    request("PUT", <<"cards", c, "unassignUser">>, Pick(params, {"userId"}))
assignLabel(c, params) ==
    requestNoBody("PUT", <<"cards", c, "labels", Num(params, "labelId")>>)
removeLabel(c, params) ==
    requestNoBody("DELETE", <<"cards", c, "labels", Num(params, "labelId")>>)

IsWrite(call) == call.method \in {"POST", "PUT", "DELETE"}

(***************************************************************************)
(* What a handler does up to its first await: it throws, or it issues one  *)
(* call whose response is post-processed as `then` says, or it enters the  *)
(* hierarchy scan of createCard / updateCard / deleteCard, or it enters    *)
(* the board-wide card read.                                               *)
(***************************************************************************)
Throw(kind, msg) == [t |-> "throw", kind |-> kind, msg |-> msg]
Do(call, then) == [t |-> "call", call |-> call, then |-> then]
Scan(m, data, then) ==
    [t |-> "scan", m |-> m, data |-> data, then |-> then,
     boardId |-> Num(data, "boardId"),
     stackId |-> IF m = "createCard" THEN Undefined ELSE Num(data, "stackId")]
ReadBoard(params) == [t |-> "read", call |-> getStacks(params.boardId), params |-> params]

createCard(data) ==
    IF Falsy(data, "boardId")
    THEN Scan("createCard", data, "return")
    ELSE Do(createCardPost(data.boardId, data), "return")

\* variant: the ancestry is resolved whatever the caller supplied
updateCardAlwaysScans(data) == Scan("updateCard", data, "return")

updateCard(data) ==
    IF Falsy(data, "boardId") \/ Falsy(data, "stackId")
    THEN Scan("updateCard", data, "return")
    ELSE Do(updateCardPut(data.boardId, data.stackId, data), "return")

\* deleteCard(cardId, boardId?, stackId?): `ids` holds the optional ones
deleteCard(cardId, ids, then) ==
    IF Falsy(ids, "boardId") \/ Falsy(ids, "stackId")
    THEN Scan("deleteCard", With(ids, "cardId", cardId), then)
    ELSE Do(deleteCardDelete(ids.boardId, ids.stackId, cardId), then)

archiveCard(cardId) == updateCard([cardId |-> cardId, archived |-> TRUE])
unarchiveCard(cardId) == updateCard([cardId |-> cardId, archived |-> FALSE])
markCardDone(cardId) == updateCard([cardId |-> cardId, done |-> TRUE])
markCardUndone(cardId) == updateCard([cardId |-> cardId, done |-> FALSE])

\* variant: the entity is not looked at, every action goes to the card switch
performActionAnyEntity(entity, id, action, params) ==
    CASE action = "move" -> Do(moveCard(id, params), "return")
      [] action = "assign" -> Do(assignUser(id, params), "void")
      [] action = "unassign" -> Do(unassignUser(id, params), "void")
      [] action = "add_label" -> Do(assignLabel(id, params), "void")
      [] action = "remove_label" -> Do(removeLabel(id, params), "void")
      [] action = "archive" -> archiveCard(id)
      [] action = "unarchive" -> unarchiveCard(id)
      [] action = "mark_done" -> markCardDone(id)
      [] action = "mark_undone" -> markCardUndone(id)
      [] action = "reorder" -> Do(reorderCard(id, params), "return")
      [] OTHER -> Throw("UnsupportedAction", "Unknown action")

performAction(entity, id, action, params) ==
    IF entity = "card"
    THEN CASE action = "move" -> Do(moveCard(id, params), "return")
           [] action = "assign" -> Do(assignUser(id, params), "void")
           [] action = "unassign" -> Do(unassignUser(id, params), "void")
           [] action = "add_label" -> Do(assignLabel(id, params), "void")
           [] action = "remove_label" -> Do(removeLabel(id, params), "void")
           [] action = "archive" -> archiveCard(id)
           [] action = "unarchive" -> unarchiveCard(id)
           [] action = "mark_done" -> markCardDone(id)
           [] action = "mark_undone" -> markCardUndone(id)
           [] action = "reorder" -> Do(reorderCard(id, params), "return")
           [] OTHER -> Throw("UnsupportedAction", "Unknown action")
    ELSE Throw("UnsupportedAction", "Actions for entity are not implemented")

handleDeckCreate(args) ==
    CASE args.entity = "board" -> Do(createBoard(args.data), "return")
      [] args.entity = "stack" -> Do(createStack(args.data), "return")
      [] args.entity = "card" -> createCard(args.data)
      [] args.entity = "label" -> Do(createLabel(args.data), "return")
      [] args.entity = "comment" -> Do(createComment(args.data), "ocsData")
      [] args.entity = "attachment" -> Do(createAttachment(args.data), "return")
      [] OTHER -> Throw("UnknownEntity", "Unknown entity type")

handleDeckRead(args) ==
    LET params == args.params IN
    CASE args.entity = "boards" -> Do(getBoards, "return")
      [] args.entity = "board" ->
            IF Falsy(params, "id")
            THEN Throw("MissingParameter", "Board ID is required")
            ELSE Do(getBoard(params.id), "return")
      [] args.entity = "stacks" ->
            IF Falsy(params, "boardId")
            THEN Throw("MissingParameter", "Board ID is required to get stacks")
            ELSE Do(getStacks(params.boardId), "return")
      [] args.entity = "stack" ->
            IF Falsy(params, "boardId") \/ Falsy(params, "id")
            THEN Throw("MissingParameter", "Board ID and Stack ID are required")
            ELSE Do(getStacks(params.boardId), "findStack")
      [] args.entity = "cards" ->
            IF ~Falsy(params, "stackId")
            THEN Do(getCards(params.stackId), "cards")
            ELSE IF ~Falsy(params, "boardId")
            THEN ReadBoard(params)
            ELSE Throw("MissingParameter", "Either stackId or boardId is required to get cards")
      [] args.entity = "card" ->
            IF Falsy(params, "id")
            THEN Throw("MissingParameter", "Card ID is required")
            ELSE Do(getCard(params.id), "return")
      [] args.entity = "labels" ->
            IF Falsy(params, "boardId")
            THEN Throw("MissingParameter", "Board ID is required to get labels")
            ELSE Do(getBoard(params.boardId), "labels")
      [] args.entity = "label" ->
            IF Falsy(params, "boardId") \/ Falsy(params, "id")
            THEN Throw("MissingParameter", "Board ID and Label ID are required")
            ELSE Do(getBoard(params.boardId), "findLabel")
      [] args.entity = "comments" ->
            IF Falsy(params, "cardId")
            THEN Throw("MissingParameter", "Card ID is required to get comments")
            ELSE Do(getComments(params.cardId), "ocsData")
      [] args.entity = "attachments" ->
            IF Falsy(params, "cardId")
            THEN Throw("MissingParameter", "Card ID is required to get attachments")
            ELSE Do(getAttachments(params.cardId), "return")
      [] OTHER -> Throw("UnknownEntity", "Unknown entity type")

handleDeckUpdate(args) ==
    CASE args.entity = "board" -> Do(updateBoard(args.id, args.data), "return")
      [] args.entity = "stack" ->
            IF Falsy(args, "boardId")
            THEN Throw("MissingParameter", "Board ID is required to update stack")
            ELSE Do(updateStack(args.boardId, args.id, args.data), "return")
      [] args.entity = "card" -> updateCard(With(args.data, "cardId", args.id))
      [] args.entity = "label" ->
            IF Falsy(args, "boardId")
            THEN Throw("MissingParameter", "Board ID is required to update label")
            ELSE Do(updateLabel(args.boardId, args.id, args.data), "return")
      [] OTHER -> Throw("UnknownEntity", "Unknown entity type")

\* variant: stack delete does not check boardId
handleDeckDeleteUnchecked(args) ==
    CASE args.entity = "board" -> Do(deleteBoard(args.id), "ack")
      [] args.entity = "stack" ->
            Do(deleteStack(Num(args, "boardId"), args.id), "ack")
      [] args.entity = "card" -> deleteCard(args.id, NoFields, "ack")
      [] args.entity = "label" ->
            IF Falsy(args, "boardId")
            THEN Throw("MissingParameter", "Board ID is required to delete label")
            ELSE Do(deleteLabel(args.boardId, args.id), "ack")
      [] args.entity = "comment" ->
            IF Falsy(args, "cardId")
            THEN Throw("MissingParameter", "Card ID is required to delete comment")
            ELSE Do(deleteComment(args.cardId, args.id), "ack")
      [] args.entity = "attachment" ->
            IF Falsy(args, "cardId")
            THEN Throw("MissingParameter", "Card ID is required to delete attachment")
            ELSE Do(deleteAttachment(args.cardId, args.id), "ack")
      [] OTHER -> Throw("UnknownEntity", "Unknown entity type")

handleDeckDelete(args) ==
    CASE args.entity = "board" -> Do(deleteBoard(args.id), "ack")
      [] args.entity = "stack" ->
            IF Falsy(args, "boardId")
            THEN Throw("MissingParameter", "Board ID is required to delete stack")
            ELSE Do(deleteStack(args.boardId, args.id), "ack")
      [] args.entity = "card" -> deleteCard(args.id, NoFields, "ack")
      [] args.entity = "label" ->
            IF Falsy(args, "boardId")
            THEN Throw("MissingParameter", "Board ID is required to delete label")
            ELSE Do(deleteLabel(args.boardId, args.id), "ack")
      [] args.entity = "comment" ->
            IF Falsy(args, "cardId")
            THEN Throw("MissingParameter", "Card ID is required to delete comment")
            ELSE Do(deleteComment(args.cardId, args.id), "ack")
      [] args.entity = "attachment" ->
            IF Falsy(args, "cardId")
            THEN Throw("MissingParameter", "Card ID is required to delete attachment")
            ELSE Do(deleteAttachment(args.cardId, args.id), "ack")
      [] OTHER -> Throw("UnknownEntity", "Unknown entity type")

handleDeckAction(args) ==
    performAction(args.entity, args.id, args.action, args.params)

\* the tool registered under each name (deckHandlers)
deckHandlers(r) ==
    CASE r.tool = "deck_create" -> handleDeckCreate(r.args)
      [] r.tool = "deck_read" -> handleDeckRead(r.args)
      [] r.tool = "deck_update" -> handleDeckUpdate(r.args)
      [] r.tool = "deck_delete" -> handleDeckDelete(r.args)
      [] r.tool = "deck_action" -> handleDeckAction(r.args)

(***************************************************************************)
(* The remote API.  A GET of a resource the workspace does not hold cannot *)
(* succeed; any call may fail.  The effect of a successful write on the    *)
(* workspace is the remote system's business and is not modelled: `remote` *)
(* is the snapshot the fetches of a request are served from.               *)
(***************************************************************************)
OkStatus == 200
FailStatuses == {404, 500}
ErrorText == "remote error body"

Exists(h, call) ==
    LET p == call.path IN
    IF call.method # "GET" THEN TRUE
    ELSE CASE Len(p) = 1 -> TRUE
           [] Len(p) = 2 /\ p[1] = "boards" -> BoardExists(h, p[2])
           [] Len(p) = 2 /\ p[1] = "stacks" -> StackExists(h, p[2])
           [] Len(p) = 2 /\ p[1] = "cards" -> CardExists(h, p[2])
           [] Len(p) = 3 /\ p[1] = "boards" -> BoardExists(h, p[2])
           [] Len(p) = 3 /\ p[1] = "cards" -> CardExists(h, p[2])
           [] OTHER -> FALSE

ResponseData(h, call) ==
    LET p == call.path IN
    IF call.method # "GET" THEN "entity"
    ELSE CASE Len(p) = 1 -> BoardList(h)
           [] Len(p) = 2 /\ p[1] = "boards" -> DeckBoard(p[2])
           [] Len(p) = 2 /\ p[1] = "stacks" -> DeckStack(h, p[2])
           [] Len(p) = 2 /\ p[1] = "cards" -> DeckCard(p[2])
           [] Len(p) = 3 /\ p[1] = "boards" -> StackList(h, p[2])
           [] Len(p) = 3 /\ p[3] = "comments" -> CommentList(p[2])
           [] OTHER -> AttachmentList(p[2])

Statuses(h, call) == IF Exists(h, call) THEN {OkStatus} \cup FailStatuses ELSE FailStatuses

(***************************************************************************)
(* Results of a tool call.                                                 *)
(***************************************************************************)
NoResult == [ok |-> FALSE, kind |-> "pending", msg |-> "", status |-> 0, body |-> ""]
Ok(v) == [ok |-> TRUE, kind |-> "ok", value |-> v]
Error(kind, msg) == [ok |-> FALSE, kind |-> kind, msg |-> msg, status |-> 0, body |-> ""]

\* variant: the status of the response is swallowed into a generic message
responseErrorGeneric(call, st) ==
    [ok |-> FALSE, kind |-> "RemoteError", msg |-> "Request failed",
     status |-> 0, body |-> ""]

\* the Error thrown for a response that is not ok
responseError(call, st) ==
    IF call.via = "request"
    THEN [ok |-> FALSE, kind |-> "RemoteError", msg |-> "Deck API Error",
          status |-> st, body |-> ErrorText]
    ELSE [ok |-> FALSE, kind |-> "RemoteError",
          msg |-> CASE call.method = "GET" -> "Failed to get comments"
                    [] call.method = "POST" -> "Failed to create comment"
                    [] OTHER -> "Failed to delete comment",
          status |-> st, body |-> ""]

EntityName(e) ==
    CASE e = "board" -> "Board" [] e = "stack" -> "Stack" [] e = "card" -> "Card"
      [] e = "label" -> "Label" [] e = "comment" -> "Comment" [] OTHER -> "Attachment"

\* array.find(x => x.id === id): position of the first match, 0 if none
find(list, id) ==
    IF \E k \in 1..Len(list) : list[k].id = id
    THEN CHOOSE k \in 1..Len(list) :
            list[k].id = id /\ \A j \in 1..(k - 1) : list[j].id # id
    ELSE 0

\* variant: the direct card read applies the archived filter as well
PostProcessFiltersCards(r, then, data) ==
    CASE then = "return" -> Ok(data)
      [] then = "void" -> Ok("undefined")
      [] then = "ocsData" -> Ok(data)
      [] then = "ack" ->
            Ok([success |-> TRUE,
                message |-> <<EntityName(r.args.entity), r.args.id, "deleted">>])
      [] then = "findStack" ->
            IF find(data, r.args.params.id) = 0
            THEN Error("NotFound", "Stack not found in board")
            ELSE Ok(data[find(data, r.args.params.id)])
      [] then = "cards" ->
            LET byArchived(c) ==
                    Has(r.args.params, "archived") => c.archived = r.args.params.archived
            IN Ok(SelectSeq(data.cards, byArchived))
      [] then = "labels" -> Ok(data.labels)
      [] then = "findLabel" ->
            IF find(data.labels, r.args.params.id) = 0
            THEN Error("NotFound", "Label not found")
            ELSE Ok(data.labels[find(data.labels, r.args.params.id)])

\* what the handler makes of the response of its only call
PostProcess(r, then, data) ==
    CASE then = "return" -> Ok(data)
      [] then = "void" -> Ok("undefined")
      [] then = "ocsData" -> Ok(data)
      [] then = "ack" ->
            Ok([success |-> TRUE,
                message |-> <<EntityName(r.args.entity), r.args.id, "deleted">>])
      [] then = "findStack" ->
            IF find(data, r.args.params.id) = 0
            THEN Error("NotFound", "Stack not found in board")
            ELSE Ok(data[find(data, r.args.params.id)])
      [] then = "cards" -> Ok(data.cards)
      [] then = "labels" -> Ok(data.labels)
      [] then = "findLabel" ->
            IF find(data.labels, r.args.params.id) = 0
            THEN Error("NotFound", "Label not found")
            ELSE Ok(data.labels[find(data.labels, r.args.params.id)])

(***************************************************************************)
(* One pass of the body of `for (const board of boards)` in the scan, run  *)
(* on the stack list of board b with the locals loc = [boardId, stackId].  *)
(***************************************************************************)
\* variant: only the first stack of a board is inspected
findCardStackFirstOnly(sl, cardId) ==
    IF Len(sl) >= 1 /\ find(sl[1].cards, cardId) # 0 THEN 1 ELSE 0

\* first stack, in listing order, whose cards hold cardId; 0 if none
findCardStack(sl, cardId) ==
    IF \E k \in 1..Len(sl) : find(sl[k].cards, cardId) # 0
    THEN CHOOSE k \in 1..Len(sl) :
            /\ find(sl[k].cards, cardId) # 0
            /\ \A j \in 1..(k - 1) : find(sl[j].cards, cardId) = 0
    ELSE 0

\* variant: card create takes the board without looking for the stack
scanBoardAnyBoard(m, data, b, sl, loc) ==
    IF m = "createCard"
    THEN [boardId |-> b, stackId |-> loc.stackId]
    ELSE LET k == findCardStack(sl, data.cardId) IN
         IF k # 0 THEN [boardId |-> b, stackId |-> sl[k].id] ELSE loc

scanBoard(m, data, b, sl, loc) ==
    IF m = "createCard"
    THEN IF find(sl, Num(data, "stackId")) # 0
         THEN [boardId |-> b, stackId |-> loc.stackId]
         ELSE loc
    ELSE LET k == findCardStack(sl, data.cardId) IN
         IF k # 0 THEN [boardId |-> b, stackId |-> sl[k].id] ELSE loc

\* variant: the loop over the boards has no break
breakScanNever(m, data, sl, loc) == FALSE

\* does the for-of loop over the boards stop after this board
breakScan(m, data, sl, loc) ==
    IF m = "createCard"
    THEN find(sl, Num(data, "stackId")) # 0
    ELSE loc.boardId # 0 /\ loc.stackId # 0

\* variant: the check after the loop is missing
scanFailedNever(m, loc) == FALSE

\* the check after the loop
scanFailed(m, loc) ==
    IF m = "createCard" THEN loc.boardId = 0
    ELSE loc.boardId = 0 \/ loc.stackId = 0

notFound(m) ==
    IF m = "createCard"
    THEN Error("NotFound", "Stack not found in any board")
    ELSE Error("NotFound", "Card not found in any board")

\* variant: the write goes to the ancestor ids the caller supplied
terminalCallPrefersSupplied(m, data, loc) ==
    CASE m = "createCard" -> createCardPost(loc.boardId, data)
      [] m = "updateCard" ->
            updateCardPut(OrElse(data, "boardId", loc.boardId),
                          OrElse(data, "stackId", loc.stackId), data)
      [] OTHER -> deleteCardDelete(loc.boardId, loc.stackId, data.cardId)

\* the terminal call of the scanning operations
terminalCall(m, data, loc) ==
    CASE m = "createCard" -> createCardPost(loc.boardId, data)
      [] m = "updateCard" -> updateCardPut(loc.boardId, loc.stackId, data)
      [] OTHER -> deleteCardDelete(loc.boardId, loc.stackId, data.cardId)

(***************************************************************************)
(* The filters of the board-wide card read, applied to the assembled list. *)
(***************************************************************************)
matchesSearch(c, search) ==
    LET searchLower == toLowerCase(search) IN
    \/ includes(toLowerCase(c.title), searchLower)
    \/ includes(toLowerCase(c.description), searchLower)

\* variant: an absent archived parameter filters as archived = false
applyFiltersAbsentIsFalse(allCards, params) ==
    LET bySearch(c) == matchesSearch(c, params.search)
        byArchived(c) == c.archived = (Has(params, "archived") /\ params.archived)
        byDone(c) == c.done = params.done
        f1 == IF Has(params, "search") /\ params.search # <<>>
              THEN SelectSeq(allCards, bySearch) ELSE allCards
        f2 == SelectSeq(f1, byArchived)
        f3 == IF Has(params, "done") THEN SelectSeq(f2, byDone) ELSE f2
    IN f3

applyFilters(allCards, params) ==
    LET bySearch(c) == matchesSearch(c, params.search)
        byArchived(c) == c.archived = params.archived
        byDone(c) == c.done = params.done
        f1 == IF Has(params, "search") /\ params.search # <<>>
              THEN SelectSeq(allCards, bySearch) ELSE allCards
        f2 == IF Has(params, "archived") THEN SelectSeq(f1, byArchived) ELSE f1
        f3 == IF Has(params, "done") THEN SelectSeq(f2, byDone) ELSE f2
    IN f3

(***************************************************************************)
(* The tool calls the model is driven with.                                *)
(***************************************************************************)
OptField(name, S) == {NoFields} \cup {name :> v : v \in S}
ArgStackIds == {1, MaxStacks + 1}

CreateRequests ==
    [tool : {"deck_create"},
     args : {[entity |-> "board", data |-> d] : d \in {[title |-> "T"], NoFields}}
       \cup {[entity |-> "stack", data |-> [title |-> "T"] @@ b @@ o] :
                b \in OptField("boardId", {1}), o \in OptField("order", {5})}
       \cup {[entity |-> "card", data |-> [title |-> "T"] @@ b @@ s] :
                b \in OptField("boardId", BoardIds), s \in OptField("stackId", ArgStackIds)}
       \cup {[entity |-> "label", data |-> [title |-> "T", color |-> "red"] @@ b] :
                b \in OptField("boardId", {1})}
       \cup {[entity |-> "comment", data |-> [message |-> "m"] @@ c] :
                c \in OptField("cardId", {1})}
       \cup {[entity |-> "attachment", data |-> [type |-> "file", data |-> "blob"] @@ c] :
                c \in OptField("cardId", {1})}]

UpdateRequests ==
    [tool : {"deck_update"},
     args : {[entity |-> "board", id |-> 1, data |-> [title |-> "T"]]}
       \cup {[entity |-> e, id |-> 1, data |-> [title |-> "T"]] @@ b :
                e \in {"stack", "label"}, b \in OptField("boardId", {1})}
       \cup {[entity |-> "card", id |-> c, data |-> [title |-> "T"] @@ b @@ s] :
                c \in CardIds, b \in OptField("boardId", BoardIds),
                s \in OptField("stackId", ArgStackIds)}
       \cup {[entity |-> "card", id |-> 1, data |-> [title |-> "T", cardId |-> 2]]}]

DeleteRequests ==
    [tool : {"deck_delete"},
     args : {[entity |-> "board", id |-> 1]}
       \cup {[entity |-> e, id |-> 1] @@ b :
                e \in {"stack", "label"}, b \in OptField("boardId", {1})}
       \cup {[entity |-> e, id |-> 1] @@ c :
                e \in {"comment", "attachment"}, c \in OptField("cardId", {1})}
       \cup {[entity |-> "card", id |-> c] @@ b :
                c \in CardIds, b \in OptField("boardId", {1})}]

MoveParams == {s @@ o : s \in OptField("stackId", {1}), o \in OptField("order", {5})}

ActionRequests ==
    [tool : {"deck_action"},
     args : {[entity |-> "card", id |-> 1, action |-> a, params |-> p] :
                a \in {"move", "reorder"}, p \in MoveParams}
       \cup {[entity |-> "card", id |-> 1, action |-> a, params |-> p] :
                a \in {"assign", "unassign"}, p \in OptField("userId", {"u"})}
       \cup {[entity |-> "card", id |-> 1, action |-> a, params |-> p] :
                a \in {"add_label", "remove_label"}, p \in OptField("labelId", {1})}
       \cup {[entity |-> "card", id |-> c, action |-> a, params |-> NoFields] :
                c \in CardIds, a \in {"archive", "unarchive", "mark_done", "mark_undone"}}
       \cup {[entity |-> "stack", id |-> 1, action |-> a, params |-> [stackId |-> 1]] :
                a \in {"move", "reorder", "archive"}}
       \cup {[entity |-> "card", id |-> 1, action |-> "bogus", params |-> NoFields]}]

ReadRequests ==
    [tool : {"deck_read"},
     args : {[entity |-> "boards", params |-> NoFields]}
       \cup {[entity |-> e, params |-> p] :
                e \in {"board", "card"}, p \in OptField("id", {1})}
       \cup {[entity |-> e, params |-> p] :
                e \in {"stacks", "labels"}, p \in OptField("boardId", {1})}
       \cup {[entity |-> e, params |-> b @@ i] :
                e \in {"stack", "label"}, b \in OptField("boardId", {1}),
                i \in OptField("id", {1})}
       \cup {[entity |-> e, params |-> p] :
                e \in {"comments", "attachments"}, p \in OptField("cardId", {1})}
       \cup {[entity |-> "cards", params |-> NoFields]}]

Requests ==
    CreateRequests \cup UpdateRequests \cup DeleteRequests
        \cup ActionRequests \cup ReadRequests

Searches == {<<>>, <<"a", "B">>, <<"B", "b">>}

CardsRequests ==
    [tool : {"deck_read"},
     args : {[entity |-> "cards", params |-> s @@ b @@ q @@ a @@ d] :
                s \in OptField("stackId", {1}), b \in OptField("boardId", {1}),
                q \in OptField("search", Searches),
                a \in OptField("archived", BOOLEAN),
                d \in OptField("done", {"true", "false"})}]

(***************************************************************************)
(* The state machine of one request.                                       *)
(***************************************************************************)
NoRequest == [tool |-> "none", args |-> NoFields]
\* an entry of the call log: the call, its status and the data a fetch returned
Pending(call) == call @@ [st |-> 0, data |-> NoFields]
Returned(st) ==
    [calls EXCEPT ![Len(calls)].st = st,
                  ![Len(calls)].data =
                      IF st = OkStatus /\ calls[Len(calls)].method = "GET"
                      THEN ResponseData(remote, calls[Len(calls)])
                      ELSE NoFields]
Wire(entry) == Omit(entry, {"st", "data"})

\* the locals of one request: what a suspended request keeps
IdleFrame ==
    [pc |-> "idle", req |-> NoRequest, calls |-> <<>>, boardId |-> Undefined,
     stackId |-> Undefined, boards |-> <<>>, stacks |-> <<>>, idx |-> 0,
     acc |-> <<>>, result |-> NoResult]

Init ==
    /\ remote \in Hierarchies
    /\ pc = "idle"
    /\ req = NoRequest
    /\ calls = <<>>
    /\ boardId = Undefined
    /\ stackId = Undefined
    /\ boards = <<>>
    /\ stacks = <<>>
    /\ idx = 0
    /\ acc = <<>>
    /\ result = NoResult
    /\ first = NoFields
    /\ other = IdleFrame

\* the request ends: it returns or throws `res`
End(log, res) ==
    /\ pc' = "done"
    /\ calls' = log
    /\ result' = res

\* the request issues `call` and suspends at await point `at`
Await(log, call, at) ==
    /\ pc' = at
    /\ calls' = Append(log, Pending(call))
    /\ result' = NoResult

\* variant: a card operation reuses the ancestry another request resolved
StartReusesAncestry(r) ==
    LET plan == deckHandlers(r)
        cached == /\ plan.t = "scan"
                  /\ other.req.tool # "none"
                  /\ other.boardId # Undefined
                  /\ other.stackId # Undefined
                  /\ other.req.args.id = r.args.id
    IN
    /\ req' = r
    /\ boards' = <<>>
    /\ stacks' = <<>>
    /\ idx' = 0
    /\ acc' = <<>>
    /\ boardId' = IF cached THEN other.boardId
                  ELSE IF plan.t = "scan" THEN plan.boardId ELSE Undefined
    /\ stackId' = IF cached THEN other.stackId
                  ELSE IF plan.t = "scan" THEN plan.stackId ELSE Undefined
    /\ CASE plan.t = "throw" -> End(<<>>, Error(plan.kind, plan.msg))
         [] plan.t = "call" -> Await(<<>>, plan.call, "terminal")
         [] plan.t = "scan" /\ cached ->
               Await(<<>>, terminalCall(plan.m, plan.data,
                                        [boardId |-> other.boardId,
                                         stackId |-> other.stackId]), "terminal")
         [] plan.t = "scan" /\ ~cached -> Await(<<>>, getBoards, "getBoards")
         [] plan.t = "read" -> Await(<<>>, plan.call, "readStacks")

\* the handler of tool call r runs up to its first await
Start(r) ==
    LET plan == deckHandlers(r) IN
    /\ req' = r
    /\ boards' = <<>>
    /\ stacks' = <<>>
    /\ idx' = 0
    /\ acc' = <<>>
    /\ boardId' = IF plan.t = "scan" THEN plan.boardId ELSE Undefined
    /\ stackId' = IF plan.t = "scan" THEN plan.stackId ELSE Undefined
    /\ CASE plan.t = "throw" -> End(<<>>, Error(plan.kind, plan.msg))
         [] plan.t = "call" -> Await(<<>>, plan.call, "terminal")
         [] plan.t = "scan" -> Await(<<>>, getBoards, "getBoards")
         [] plan.t = "read" -> Await(<<>>, plan.call, "readStacks")

Receive ==
    /\ pc = "idle"
    /\ \E r \in Requests : Start(r)
    /\ UNCHANGED <<remote, first, other>>

ReceiveCards ==
    /\ pc = "idle"
    /\ \E r \in CardsRequests : Start(r)
    /\ UNCHANGED <<remote, first, other>>

\* the for-of loop of the scan arrives at position k of list with locals loc
continueScan(log, list, k, loc, brk) ==
    LET plan == deckHandlers(req) IN
    /\ boardId' = loc.boardId
    /\ stackId' = loc.stackId
    /\ IF ~brk /\ k <= Len(list)
       THEN /\ idx' = k
            /\ Await(log, getStacks(list[k].id), "getStacks")
       ELSE /\ idx' = idx
            /\ IF scanFailed(plan.m, loc)
               THEN End(log, notFound(plan.m))
               ELSE Await(log, terminalCall(plan.m, plan.data, loc), "terminal")

\* `await this.getBoards()` of the scan returns
GetBoardsReturn ==
    /\ pc = "getBoards"
    /\ \E st \in Statuses(remote, calls[Len(calls)]) :
          IF st # OkStatus
          THEN /\ End(Returned(st), responseError(calls[Len(calls)], st))
               /\ UNCHANGED <<boards, idx, boardId, stackId>>
          ELSE /\ boards' = ResponseData(remote, calls[Len(calls)])
               /\ continueScan(Returned(st), boards', 1,
                               [boardId |-> boardId, stackId |-> stackId], FALSE)
    /\ UNCHANGED <<remote, req, stacks, acc, first, other>>

\* `await this.getStacks(board.id)` of the scan returns
GetStacksReturn ==
    /\ pc = "getStacks"
    /\ \E st \in Statuses(remote, calls[Len(calls)]) :
          IF st # OkStatus
          THEN /\ End(Returned(st), responseError(calls[Len(calls)], st))
               /\ UNCHANGED <<idx, boardId, stackId>>
          ELSE LET plan == deckHandlers(req)
                   list == ResponseData(remote, calls[Len(calls)])
                   loc == scanBoard(plan.m, plan.data, boards[idx].id, list,
                                    [boardId |-> boardId, stackId |-> stackId])
               IN continueScan(Returned(st), boards, idx + 1, loc,
                               breakScan(plan.m, plan.data, list, loc))
    /\ UNCHANGED <<remote, req, boards, stacks, acc, first, other>>

\* variant: a delete acknowledges whatever its call returned
TerminalReturnAcksFailure ==
    /\ pc = "terminal"
    /\ \E st \in Statuses(remote, calls[Len(calls)]) :
          IF st # OkStatus /\ req.tool # "deck_delete"
          THEN End(Returned(st), responseError(calls[Len(calls)], st))
          ELSE End(Returned(st),
                   PostProcess(req, deckHandlers(req).then,
                               ResponseData(remote, calls[Len(calls)])))
    /\ UNCHANGED <<remote, req, boardId, stackId, boards, stacks, idx, acc, first, other>>

\* the only call of a non-scanning operation, or the terminal call, returns
TerminalReturn ==
    /\ pc = "terminal"
    /\ \E st \in Statuses(remote, calls[Len(calls)]) :
          IF st # OkStatus
          THEN End(Returned(st), responseError(calls[Len(calls)], st))
          ELSE End(Returned(st),
                   PostProcess(req, deckHandlers(req).then,
                               ResponseData(remote, calls[Len(calls)])))
    /\ UNCHANGED <<remote, req, boardId, stackId, boards, stacks, idx, acc, first, other>>

\* variant: the loop stops at the first stack that holds a card
continueReadUntilFound(log, list, k, allCards) ==
    /\ acc' = allCards
    /\ IF k <= Len(list) /\ allCards = <<>>
       THEN /\ idx' = k
            /\ Await(log, getCards(list[k].id), "readCards")
       ELSE /\ idx' = idx
            /\ End(log, Ok(applyFilters(allCards, req.args.params)))

\* the for-of loop of the board-wide read arrives at position k
continueRead(log, list, k, allCards) ==
    /\ acc' = allCards
    /\ IF k <= Len(list)
       THEN /\ idx' = k
            /\ Await(log, getCards(list[k].id), "readCards")
       ELSE /\ idx' = idx
            /\ End(log, Ok(applyFilters(allCards, req.args.params)))

\* `await client.getStacks(params.boardId)` of the board-wide read returns
ReadStacksReturn ==
    /\ pc = "readStacks"
    /\ \E st \in Statuses(remote, calls[Len(calls)]) :
          IF st # OkStatus
          THEN /\ End(Returned(st), responseError(calls[Len(calls)], st))
               /\ UNCHANGED <<stacks, idx, acc>>
          ELSE /\ stacks' = ResponseData(remote, calls[Len(calls)])
               /\ continueRead(Returned(st), stacks', 1, <<>>)
    /\ UNCHANGED <<remote, req, boardId, stackId, boards, first, other>>

\* variant: a stack whose fetch failed is skipped and the read goes on
ReadCardsReturnSkipsFailed ==
    /\ pc = "readCards"
    /\ \E st \in Statuses(remote, calls[Len(calls)]) :
          IF st # OkStatus
          THEN continueRead(Returned(st), stacks, idx + 1, acc)
          ELSE continueRead(Returned(st), stacks, idx + 1,
                            acc \o ResponseData(remote, calls[Len(calls)]).cards)
    /\ UNCHANGED <<remote, req, boardId, stackId, boards, stacks, first, other>>

\* `await client.getCards(stack.id)` of the board-wide read returns
ReadCardsReturn ==
    /\ pc = "readCards"
    /\ \E st \in Statuses(remote, calls[Len(calls)]) :
          IF st # OkStatus
          THEN /\ End(Returned(st), responseError(calls[Len(calls)], st))
               /\ UNCHANGED <<idx, acc>>
          ELSE continueRead(Returned(st), stacks, idx + 1,
                            acc \o ResponseData(remote, calls[Len(calls)]).cards)
    /\ UNCHANGED <<remote, req, boardId, stackId, boards, stacks, first, other>>

(***************************************************************************)
(* The caller repeats a card update or delete that resolved the ancestry,  *)
(* now supplying the ids it was resolved to.                               *)
(***************************************************************************)
Explicit(r, b, s) ==
    IF r.tool = "deck_update"
    THEN [r EXCEPT !.args = With(r.args, "data",
                                With(With(r.args.data, "boardId", b), "stackId", s))]
    ELSE [r EXCEPT !.args = With(r.args, "boardId", b)]

Resolved(r) ==
    /\ r.tool \in {"deck_update", "deck_delete"}
    /\ deckHandlers(r).t = "scan"

BoardListFetches(log) == Cardinality({k \in 1..Len(log) : Wire(log[k]) = getBoards})

Repeat ==
    /\ pc = "done"
    /\ result.ok
    /\ first = NoFields
    /\ Resolved(req)
    /\ first' = [req |-> req, call |-> Wire(calls[Len(calls)]),
                 boardId |-> boardId, stackId |-> stackId,
                 scans |-> BoardListFetches(calls)]
    /\ Start(Explicit(req, boardId, stackId))
    /\ UNCHANGED <<remote, other>>

\* the response is delivered; the server keeps nothing of the request
Finish ==
    /\ pc = "done"
    /\ pc' = "idle"
    /\ req' = NoRequest
    /\ calls' = <<>>
    /\ boardId' = Undefined
    /\ stackId' = Undefined
    /\ boards' = <<>>
    /\ stacks' = <<>>
    /\ idx' = 0
    /\ acc' = <<>>
    /\ result' = NoResult
    /\ first' = NoFields
    /\ UNCHANGED <<remote, other>>

Next ==
    \/ Receive
    \/ GetBoardsReturn
    \/ GetStacksReturn
    \/ TerminalReturn
    \/ Repeat
    \/ Finish

Spec == Init /\ [][Next]_vars

NextCards ==
    \/ ReceiveCards
    \/ ReadStacksReturn
    \/ ReadCardsReturn
    \/ TerminalReturn
    \/ Finish

SpecCards == Init /\ [][NextCards]_vars

(***************************************************************************)
(* Two requests in flight.  The server builds a new McpServer per HTTP     *)
(* request and every handler call builds its own DeckClient, so a request  *)
(* owns its locals; the event loop runs one continuation at a time and may *)
(* switch between the two requests at every await.  Meanwhile the card may *)
(* be moved to another stack of the remote workspace.                      *)
(***************************************************************************)
PairRequests ==
    {r \in UpdateRequests \cup DeleteRequests :
        /\ r.args.entity = "card"
        /\ r.args.id = 1
        /\ r.tool = "deck_update" => r.args.data = [title |-> "T"]
        /\ r.tool = "deck_delete" => ~Has(r.args, "boardId")}

ReceivePair ==
    /\ pc = "idle"
    /\ \E r \in PairRequests : Start(r)
    /\ UNCHANGED <<remote, first, other>>

\* the locals of the running request
Running ==
    [pc |-> pc, req |-> req, calls |-> calls, boardId |-> boardId,
     stackId |-> stackId, boards |-> boards, stacks |-> stacks, idx |-> idx,
     acc |-> acc, result |-> result]

\* the event loop turns to the other request
Switch ==
    /\ pc # "idle" \/ other.pc # "idle"
    /\ other' = Running
    /\ pc' = other.pc
    /\ req' = other.req
    /\ calls' = other.calls
    /\ boardId' = other.boardId
    /\ stackId' = other.stackId
    /\ boards' = other.boards
    /\ stacks' = other.stacks
    /\ idx' = other.idx
    /\ acc' = other.acc
    /\ result' = other.result
    /\ UNCHANGED <<remote, first>>

\* card 1 is moved to another stack of the remote workspace once a request
\* on it has completed; the other request may be anywhere in its scan
RemoteMove ==
    /\ pc = "done"
    /\ result.ok
    /\ CardExists(remote, 1)
    /\ \E s \in StackIds :
          /\ StackExists(remote, s)
          /\ s # remote.at[1]
          /\ remote' = [remote EXCEPT !.at[1] = s]
    /\ UNCHANGED <<pc, req, calls, boardId, stackId, boards, stacks, idx, acc, result,
                   first, other>>

NextPair ==
    \/ ReceivePair
    \/ GetBoardsReturn
    \/ GetStacksReturn
    \/ TerminalReturn
    \/ Switch
    \/ RemoteMove
    \/ Finish

SpecPair == Init /\ [][NextPair]_vars

\* every tool call of the server: the requests of both specifications above
NextAll ==
    \/ Receive
    \/ ReceiveCards
    \/ GetBoardsReturn
    \/ GetStacksReturn
    \/ ReadStacksReturn
    \/ ReadCardsReturn
    \/ TerminalReturn
    \/ Repeat
    \/ Finish

SpecAll == Init /\ [][NextAll]_vars

(***************************************************************************)
(* Vocabulary of the properties.                                           *)
(***************************************************************************)
Active == req.tool # "none"
Scanning == Active /\ deckHandlers(req).t = "scan"
CardScanning == Scanning /\ deckHandlers(req).m \in {"updateCard", "deleteCard"}
StackScanning == Scanning /\ deckHandlers(req).m = "createCard"
Writes(log) == {k \in 1..Len(log) : IsWrite(log[k])}
FailedCalls(log) == {k \in 1..Len(log) : log[k].st \in FailStatuses}
FailedFetches(log) == {k \in FailedCalls(log) : log[k].method = "GET"}
AllReturnedOk(log) == \A k \in 1..Len(log) : log[k].st = OkStatus

\* the board that holds the target of the running scan, by the workspace
\* itself: the board of the stack (card create) or of the card's stack
TargetStack(h, plan) ==
    IF plan.m = "createCard"
    THEN (IF StackExists(h, Num(plan.data, "stackId")) THEN plan.data.stackId ELSE 0)
    ELSE (IF CardExists(h, plan.data.cardId) THEN h.at[plan.data.cardId] ELSE 0)
TargetBoard(h, plan) ==
    IF TargetStack(h, plan) = 0 THEN 0 ELSE BoardOf(TargetStack(h, plan))
\* position of board b in the remote listing
ListedAt(h, b) == CHOOSE k \in 1..h.nb : BoardList(h)[k].id = b

(***************************************************************************)
(* C1  Write-after-resolve.  In card create without boardId, card update   *)
(* without boardId or stackId, and card delete: a write call is the last   *)
(* call of the request and every call before it is a fetch that has        *)
(* returned successfully; when the scan has no match or one of its fetches *)
(* failed, no write call has been issued and the request ends in an error. *)
(***************************************************************************)
WriteAfterResolve ==
    Scanning =>
        /\ \A k \in Writes(calls) :
              /\ k = Len(calls)
              /\ \A j \in 1..(k - 1) :
                    calls[j].method = "GET" /\ calls[j].st = OkStatus
        /\ (TargetStack(remote, deckHandlers(req)) = 0 \/ FailedFetches(calls) # {}) =>
              /\ Writes(calls) = {}
              /\ pc = "done" => ~result.ok

WriteAfterResolveWitness ==
    /\ Scanning
    /\ pc = "done"
    /\ result.kind = "NotFound"
    /\ Len(calls) >= 3
    /\ Writes(calls) = {}

(***************************************************************************)
(* C2  Every write call carries its ancestor ids: no POST, PUT or DELETE   *)
(* is issued whose path holds an absent id in front of a further path      *)
(* segment.                                                                *)
(***************************************************************************)
AncestorIds(path) == {path[j] : j \in {i \in 1..(Len(path) - 1) : i % 2 = 0}}

NoWriteWithAbsentAncestor ==
    \A k \in Writes(calls) : Undefined \notin AncestorIds(calls[k].path)

(***************************************************************************)
(* C3  A tool call that lacks a field its remote call requires fails with  *)
(* a missing-parameter error and issues no remote call.                    *)
(***************************************************************************)
RequiredFields(r) ==
    LET e == r.args.entity IN
    CASE r.tool = "deck_create" ->
            CASE e = "board" -> {"title"}
              [] e = "stack" -> {"title", "boardId"}
              [] e = "card" -> {"title", "stackId"}
              [] e = "label" -> {"title", "color", "boardId"}
              [] e = "comment" -> {"cardId", "message"}
              [] OTHER -> {"cardId", "type", "data"}
      [] r.tool = "deck_read" ->
            CASE e \in {"board", "card"} -> {"id"}
              [] e \in {"stacks", "labels"} -> {"boardId"}
              [] e \in {"stack", "label"} -> {"boardId", "id"}
              [] e \in {"comments", "attachments"} -> {"cardId"}
              [] OTHER -> {}
      [] r.tool = "deck_action" /\ e = "card" ->
            CASE r.args.action = "move" -> {"stackId"}
              [] r.args.action \in {"assign", "unassign"} -> {"userId"}
              [] r.args.action \in {"add_label", "remove_label"} -> {"labelId"}
              [] OTHER -> {}
      [] r.tool \in {"deck_update", "deck_delete"} /\ e \in {"stack", "label"} -> {"boardId"}
      [] r.tool = "deck_delete" /\ e \in {"comment", "attachment"} -> {"cardId"}
      [] OTHER -> {}

Supplied(r) ==
    CASE r.tool = "deck_create" -> DOMAIN r.args.data
      [] r.tool \in {"deck_read", "deck_action"} -> DOMAIN r.args.params
      [] OTHER -> DOMAIN r.args

LacksRequired(r) ==
    \/ RequiredFields(r) \ Supplied(r) # {}
    \/ /\ r.tool = "deck_read"
       /\ r.args.entity = "cards"
       /\ {"stackId", "boardId"} \cap Supplied(r) = {}

MissingParameterBeforeAnyCall ==
    (Active /\ LacksRequired(req)) =>
        /\ calls = <<>>
        /\ pc = "done"
        /\ result.kind = "MissingParameter"

(***************************************************************************)
(* C4  Stack and label update and delete without boardId, and comment and  *)
(* attachment delete without cardId, throw a missing-parameter error with  *)
(* no remote call and no scan; card delete without ancestor ids scans, and *)
(* when the card exists and no call fails it ends with the DELETE of the   *)
(* card under its board and stack and returns the acknowledgment.          *)
(***************************************************************************)
NeedsExplicitAncestor(r) ==
    \/ /\ r.tool \in {"deck_update", "deck_delete"}
       /\ r.args.entity \in {"stack", "label"}
       /\ ~Has(r.args, "boardId")
    \/ /\ r.tool = "deck_delete"
       /\ r.args.entity \in {"comment", "attachment"}
       /\ ~Has(r.args, "cardId")

IsCardDelete(r) == r.tool = "deck_delete" /\ r.args.entity = "card"

ExplicitAncestorAsymmetry ==
    /\ (Active /\ NeedsExplicitAncestor(req)) =>
          /\ calls = <<>>
          /\ pc = "done"
          /\ result.kind = "MissingParameter"
    /\ (Active /\ IsCardDelete(req)) =>
          /\ calls # <<>>
          /\ Wire(calls[1]) = getBoards
          /\ (pc = "done" /\ CardExists(remote, req.args.id) /\ FailedCalls(calls) = {}) =>
                /\ result.ok
                /\ result.value.success
                /\ Wire(calls[Len(calls)]) =
                      deleteCardDelete(BoardOf(remote.at[req.args.id]),
                                       remote.at[req.args.id], req.args.id)

ExplicitAncestorAsymmetryWitness ==
    /\ Active
    /\ req.tool = "deck_delete"
    /\ req.args.entity = "stack"
    /\ ~Has(req.args, "boardId")
    /\ pc = "done"
    /\ result.kind = "MissingParameter"

(***************************************************************************)
(* C5  Card update: the body of the PUT is the caller's data without       *)
(* boardId, stackId and cardId; none of the three is in the body.          *)
(***************************************************************************)
IsCardUpdate(r) == r.tool = "deck_update" /\ r.args.entity = "card"

UpdateBodyOmitsAncestorIds ==
    (Active /\ IsCardUpdate(req)) =>
        \A k \in Writes(calls) :
            /\ DOMAIN calls[k].body \cap {"boardId", "stackId", "cardId"} = {}
            /\ calls[k].body = Omit(req.args.data, {"boardId", "stackId", "cardId"})

(***************************************************************************)
(* C6  A card update or delete without ancestor ids fetches the board list *)
(* once, and the same request repeated with the resolved boardId and       *)
(* stackId issues the same terminal call: method, path and body.           *)
(***************************************************************************)
Repeated == DOMAIN first # {}

RepeatIssuesSameTerminalCall ==
    Repeated =>
        /\ first.scans = 1
        /\ \A k \in Writes(calls) : Wire(calls[k]) = first.call

(***************************************************************************)
(* C7  The scan is sequential and short-circuits: the first call is the    *)
(* one board-list fetch; every later fetch is the stack-list fetch of the  *)
(* next board of the listing, issued after the call before it returned,    *)
(* and none is issued for a board listed after the board that holds the    *)
(* target; no card-list fetch is issued.                                   *)
(***************************************************************************)
ScanSequentialShortCircuit ==
    Scanning =>
        LET bl == BoardList(remote)
            tb == TargetBoard(remote, deckHandlers(req))
        IN /\ calls # <<>>
           /\ Wire(calls[1]) = getBoards
           /\ BoardListFetches(calls) = 1
           /\ \A k \in 1..Len(calls) : calls[k].path[1] # "stacks"
           /\ \A k \in 2..Len(calls) :
                 /\ calls[k - 1].st = OkStatus
                 /\ \/ IsWrite(calls[k])
                    \/ /\ k - 1 <= Len(bl)
                       /\ Wire(calls[k]) = getStacks(bl[k - 1].id)
                       /\ tb # 0 => k - 1 <= ListedAt(remote, tb)

ScanSequentialShortCircuitWitness ==
    /\ Scanning
    /\ pc = "terminal"
    /\ Len(boards) >= 2
    /\ idx = 1
    /\ Len(calls) = 3

(***************************************************************************)
(* C8  Card update and delete use, in the terminal call, the first board   *)
(* and stack, in board listing order then stack listing order, whose card  *)
(* list holds the card; when no stack holds it they fail with not-found    *)
(* after the stack list of every listed board has been fetched.            *)
(***************************************************************************)
HoldingPairs(h, c) ==
    {p \in (1..h.nb) \X (1..MaxStacks) :
        /\ p[2] <= Len(StackList(h, BoardList(h)[p[1]].id))
        /\ \E n \in 1..Len(StackList(h, BoardList(h)[p[1]].id)[p[2]].cards) :
              StackList(h, BoardList(h)[p[1]].id)[p[2]].cards[n].id = c}

FirstPair(P) ==
    CHOOSE p \in P : \A q \in P : p[1] < q[1] \/ (p[1] = q[1] /\ p[2] <= q[2])

CardAncestryFirstMatch ==
    CardScanning =>
        LET c == deckHandlers(req).data.cardId
            P == HoldingPairs(remote, c)
            b == BoardList(remote)[FirstPair(P)[1]].id
        IN /\ \A k \in Writes(calls) :
                 /\ P # {}
                 /\ SubSeq(calls[k].path, 1, 6) =
                       <<"boards", b, "stacks", StackList(remote, b)[FirstPair(P)[2]].id,
                         "cards", c>>
           /\ (P = {} /\ pc = "done" /\ FailedCalls(calls) = {}) =>
                 /\ result.kind = "NotFound"
                 /\ Len(calls) = 1 + remote.nb
           /\ (P # {} /\ pc = "done" /\ FailedFetches(calls) = {}) => Writes(calls) # {}

CardAncestryFirstMatchWitness ==
    /\ CardScanning
    /\ pc = "done"
    /\ result.ok
    /\ idx >= 2
    /\ stackId # StackList(remote, boardId)[1].id

(***************************************************************************)
(* C9  Card create without boardId posts under the first board, in listing *)
(* order, whose stack list holds stackId; when no board's stack list holds *)
(* it the create fails with not-found after every board has been scanned.  *)
(***************************************************************************)
HoldingBoards(h, s) ==
    {i \in 1..h.nb :
        \E j \in 1..Len(StackList(h, BoardList(h)[i].id)) :
            StackList(h, BoardList(h)[i].id)[j].id = s}

FirstOf(S) == CHOOSE i \in S : \A j \in S : i <= j

StackAncestryFirstMatch ==
    StackScanning =>
        LET s == Num(deckHandlers(req).data, "stackId")
            H == HoldingBoards(remote, s)
        IN /\ \A k \in Writes(calls) :
                 /\ H # {}
                 /\ calls[k].method = "POST"
                 /\ calls[k].path =
                       <<"boards", BoardList(remote)[FirstOf(H)].id, "stacks", s, "cards">>
           /\ (H = {} /\ pc = "done" /\ FailedCalls(calls) = {}) =>
                 /\ result.kind = "NotFound"
                 /\ Len(calls) = 1 + remote.nb
           /\ (H # {} /\ pc = "done" /\ FailedFetches(calls) = {}) => Writes(calls) # {}

StackAncestryFirstMatchWitness ==
    /\ StackScanning
    /\ pc = "done"
    /\ result.ok
    /\ idx >= 2

(***************************************************************************)
(* C10  Board-wide card read: the result is the concatenation, in stack    *)
(* listing order, of each stack's cards that satisfy every supplied        *)
(* filter; an absent filter restricts nothing.                             *)
(***************************************************************************)
LowerChar(ch) == IF ch = "A" THEN "a" ELSE IF ch = "B" THEN "b" ELSE ch

ContainsIgnoringCase(text, part) ==
    \E off \in 0..(Len(text) - Len(part)) :
        \A i \in 1..Len(part) : LowerChar(text[off + i]) = LowerChar(part[i])

Satisfies(c, params) ==
    /\ Has(params, "search") =>
          \/ ContainsIgnoringCase(c.title, params.search)
          \/ ContainsIgnoringCase(c.description, params.search)
    /\ Has(params, "archived") => c.archived = params.archived
    /\ Has(params, "done") => c.done = params.done

RECURSIVE SatisfyingFrom(_, _, _, _)
SatisfyingFrom(h, b, params, k) ==
    IF k > Len(StackList(h, b)) THEN <<>>
    ELSE LET keep(c) == Satisfies(c, params)
         IN SelectSeq(StackList(h, b)[k].cards, keep)
                \o SatisfyingFrom(h, b, params, k + 1)

BoardWide(r) ==
    /\ r.tool = "deck_read"
    /\ r.args.entity = "cards"
    /\ ~Has(r.args.params, "stackId")
    /\ Has(r.args.params, "boardId")

BoardWideReadResult ==
    (Active /\ BoardWide(req) /\ pc = "done") =>
        /\ FailedCalls(calls) = {} => result.ok
        /\ result.ok =>
              result.value = SatisfyingFrom(remote, req.args.params.boardId,
                                            req.args.params, 1)

BoardWideReadResultWitness ==
    /\ Active
    /\ BoardWide(req)
    /\ pc = "done"
    /\ result.ok
    /\ Has(req.args.params, "search")
    /\ ~Has(req.args.params, "archived")
    /\ Len(result.value) >= 1
    /\ Len(result.value) < Len(acc)

(***************************************************************************)
(* C11  Board-wide card read never short-circuits its fetches: the calls   *)
(* it issues are the stack-list fetch of the board followed by one fetch   *)
(* per listed stack, in listing order; a read that ends without a failed   *)
(* call has issued all of them, whatever search, archived and done are.    *)
(***************************************************************************)
ExpectedFetches(h, b) ==
    <<getStacks(b)>> \o [k \in 1..Len(StackList(h, b)) |-> getCards(StackList(h, b)[k].id)]

BoardWideFetchesEveryStack ==
    (Active /\ BoardWide(req)) =>
        LET E == ExpectedFetches(remote, req.args.params.boardId)
        IN /\ Len(calls) >= 1
           /\ Len(calls) <= Len(E)
           /\ \A k \in 1..Len(calls) : Wire(calls[k]) = E[k]
           /\ (pc = "done" /\ FailedCalls(calls) = {}) => Len(calls) = Len(E)
           /\ pc # "done" => result = NoResult

BoardWideFetchesEveryStackWitness ==
    /\ Active
    /\ BoardWide(req)
    /\ pc = "done"
    /\ result.ok
    /\ Len(calls) >= 3
    /\ Has(req.args.params, "search")
    /\ Has(req.args.params, "archived")
    /\ Has(req.args.params, "done")
    /\ Len(acc) >= 1
    /\ result.value = <<>>

(***************************************************************************)
(* C12  An action request whose entity/action pair is not implemented (any *)
(* action on entity stack, or a card action outside the ten implemented    *)
(* ones) ends in an unsupported-action error and issues no remote call.    *)
(***************************************************************************)
ImplementedActions ==
    {"move", "assign", "unassign", "add_label", "remove_label",
     "archive", "unarchive", "mark_done", "mark_undone", "reorder"}

Unsupported(r) ==
    /\ r.tool = "deck_action"
    /\ r.args.entity # "card" \/ r.args.action \notin ImplementedActions

UnsupportedActionIssuesNoCall ==
    (Active /\ Unsupported(req)) =>
        /\ calls = <<>>
        /\ pc = "done"
        /\ ~result.ok
        /\ result.kind = "UnsupportedAction"

UnsupportedActionIssuesNoCallWitness ==
    /\ Active
    /\ Unsupported(req)
    /\ req.args.entity = "stack"
    /\ req.args.action = "move"
    /\ pc = "done"
    /\ result.kind = "UnsupportedAction"

(***************************************************************************)
(* C13  Action move and action reorder issue the identical single remote   *)
(* call: for the same card id, target stack id and order, the call of the  *)
(* running request is the call the other action name is dispatched to,     *)
(* a PUT on the card's reorder path whose body holds the stack id and the  *)
(* order, 999 when the order is absent.                                    *)
(***************************************************************************)
IsMoveOrReorder(r) ==
    /\ r.tool = "deck_action"
    /\ r.args.entity = "card"
    /\ r.args.action \in {"move", "reorder"}

OtherName(r) ==
    [r EXCEPT !.args.action = IF r.args.action = "move" THEN "reorder" ELSE "move"]

MoveAndReorderIssueSameCall ==
    (Active /\ IsMoveOrReorder(req)) =>
        /\ Len(calls) = 1
        /\ deckHandlers(OtherName(req)).t = "call"
        /\ Wire(calls[1]) = deckHandlers(OtherName(req)).call
        /\ calls[1].method = "PUT"
        /\ calls[1].path = <<"cards", req.args.id, "reorder">>
        /\ calls[1].body.order =
              IF Has(req.args.params, "order") THEN req.args.params.order ELSE 999

MoveAndReorderIssueSameCallWitness ==
    /\ Active
    /\ IsMoveOrReorder(req)
    /\ req.args.action = "reorder"
    /\ ~Has(req.args.params, "order")
    /\ Has(req.args.params, "stackId")
    /\ pc = "done"
    /\ result.ok
    /\ calls[1].body = [stackId |-> req.args.params.stackId, order |-> DefaultOrder]

(***************************************************************************)
(* C14  Delete returns the acknowledgment {success: true, message naming   *)
(* the entity kind and the id} exactly when its last call is a DELETE that *)
(* returned success; otherwise the caller receives the error of the        *)
(* failure: of validation (no call issued), of resolution (no write        *)
(* issued) or of the call that failed, with its status.                    *)
(***************************************************************************)
IsDelete(r) == r.tool = "deck_delete"

Deleted(log) ==
    /\ Len(log) >= 1
    /\ log[Len(log)].method = "DELETE"
    /\ log[Len(log)].st = OkStatus

DeleteAcknowledgedIffDeleted ==
    (Active /\ IsDelete(req)) =>
        /\ pc # "done" => ~result.ok
        /\ pc = "done" =>
              /\ result.ok <=> Deleted(calls)
              /\ result.ok =>
                    /\ result.value.success
                    /\ result.value.message[1] = EntityName(req.args.entity)
                    /\ result.value.message[2] = req.args.id
              /\ ~result.ok =>
                    \/ /\ calls = <<>>
                       /\ result.kind = "MissingParameter"
                    \/ /\ calls # <<>>
                       /\ FailedCalls(calls) = {}
                       /\ Writes(calls) = {}
                       /\ result.kind = "NotFound"
                    \/ /\ FailedCalls(calls) = {Len(calls)}
                       /\ result.kind = "RemoteError"
                       /\ result.status = calls[Len(calls)].st

DeleteAcknowledgedIffDeletedWitness ==
    /\ Active
    /\ IsDelete(req)
    /\ req.args.entity = "stack"
    /\ pc = "done"
    /\ calls # <<>>
    /\ calls[Len(calls)].method = "DELETE"
    /\ calls[Len(calls)].st = 500
    /\ result.kind = "RemoteError"

(***************************************************************************)
(* C15  A non-success HTTP status of a remote call surfaces to the caller  *)
(* as an error that carries the remote status code.  The error of a call   *)
(* made through DeckClient.request carries the remote response body        *)
(* verbatim as well; the error of a call of the comment sub-API (list,     *)
(* create and delete comment) carries the status code and no body.         *)
(***************************************************************************)
RemoteErrorCarriesStatus ==
    (Active /\ pc = "done") =>
        \A k \in FailedCalls(calls) :
            /\ ~result.ok
            /\ result.kind = "RemoteError"
            /\ result.status = calls[k].st
            /\ calls[k].via = "request" => result.body = ErrorText
            /\ calls[k].via = "fetch" => result.body = ""

RemoteErrorCarriesStatusWitness ==
    /\ Active
    /\ pc = "done"
    /\ req.tool = "deck_delete"
    /\ req.args.entity = "comment"
    /\ calls # <<>>
    /\ calls[Len(calls)].via = "fetch"
    /\ calls[Len(calls)].st = 404
    /\ result.status = 404
    /\ result.body = ""

\* C15 as stated: the error of every failed remote call, those of the
\* comment sub-API included, carries the status code and the response body
RemoteErrorCarriesStatusAndBody ==
    (Active /\ pc = "done") =>
        \A k \in FailedCalls(calls) :
            /\ ~result.ok
            /\ result.status = calls[k].st
            /\ result.body = ErrorText

(***************************************************************************)
(* C16  No retry and no local recovery: a failed remote call is the last   *)
(* call of its request, the request has ended with the error of that       *)
(* failure, and no two calls of one request have the same method and path. *)
(***************************************************************************)
NoRetryNoRecovery ==
    Active =>
        /\ \A k \in FailedCalls(calls) :
              /\ k = Len(calls)
              /\ pc = "done"
              /\ ~result.ok
              /\ result.kind = "RemoteError"
              /\ result.status = calls[k].st
        /\ \A j, k \in 1..Len(calls) :
              j < k => <<calls[j].method, calls[j].path>> # <<calls[k].method, calls[k].path>>
        /\ \A k \in 1..(Len(calls) - 1) : calls[k].st = OkStatus

NoRetryNoRecoveryWitness ==
    /\ Active
    /\ BoardWide(req)
    /\ pc = "done"
    /\ Len(calls) = 3
    /\ calls[3].st = 500
    /\ Len(acc) >= 1
    /\ ~result.ok
    /\ result.status = 500

(***************************************************************************)
(* C18  The resolver runs only when an ancestor id is missing: card create *)
(* with boardId supplied, and card update with both boardId and stackId    *)
(* supplied in data, issue exactly one remote call, the terminal POST or   *)
(* PUT under the supplied ids, and no board-list or stack-list fetch.      *)
(***************************************************************************)
IsCardCreate(r) == r.tool = "deck_create" /\ r.args.entity = "card"

AncestorsSupplied(r) ==
    \/ IsCardCreate(r) /\ ~Falsy(r.args.data, "boardId")
    \/ /\ IsCardUpdate(r)
       /\ ~Falsy(r.args.data, "boardId")
       /\ ~Falsy(r.args.data, "stackId")

IsListFetch(call) ==
    /\ call.method = "GET"
    /\ \/ call.path = <<"boards">>
       \/ Len(call.path) = 3 /\ call.path[1] = "boards" /\ call.path[3] = "stacks"

NoScanWhenAncestorsSupplied ==
    (Active /\ AncestorsSupplied(req)) =>
        /\ Len(calls) = 1
        /\ \A k \in 1..Len(calls) : ~IsListFetch(calls[k])
        /\ calls[1].method = IF IsCardCreate(req) THEN "POST" ELSE "PUT"
        /\ calls[1].path[1] = "boards"
        /\ calls[1].path[2] = req.args.data.boardId
        /\ IsCardUpdate(req) =>
              calls[1].path = <<"boards", req.args.data.boardId,
                                "stacks", req.args.data.stackId, "cards", req.args.id>>

NoScanWhenAncestorsSuppliedWitness ==
    /\ Active
    /\ IsCardUpdate(req)
    /\ AncestorsSupplied(req)
    /\ first = NoFields
    /\ pc = "done"
    /\ result.ok
    /\ Len(calls) = 1

(***************************************************************************)
(* C19  Every create, read, update, delete and action request issues at    *)
(* most one mutating remote call (POST, PUT or DELETE); when it issues one *)
(* it is the last call of the request and every call before it is a GET;   *)
(* a read request issues only GETs.                                        *)
(***************************************************************************)
AtMostOneWriteAndLast ==
    Active =>
        /\ Cardinality(Writes(calls)) <= 1
        /\ \A k \in Writes(calls) :
              /\ k = Len(calls)
              /\ \A j \in 1..(k - 1) : calls[j].method = "GET"
        /\ \A k \in 1..Len(calls) : calls[k].method \in {"GET", "POST", "PUT", "DELETE"}
        /\ req.tool = "deck_read" => Writes(calls) = {}

AtMostOneWriteAndLastWitness ==
    /\ Active
    /\ req.tool = "deck_action"
    /\ req.args.action = "archive"
    /\ pc = "done"
    /\ result.ok
    /\ Len(calls) >= 4
    /\ Writes(calls) = {Len(calls)}
    /\ calls[Len(calls)].method = "PUT"

(***************************************************************************)
(* C20  Plural card read with stackId supplied takes the direct mode       *)
(* whatever else is supplied: its only call is the fetch of that stack and *)
(* it returns that stack's cards unfiltered, ignoring boardId, search,     *)
(* archived and done; with neither stackId nor boardId the read fails      *)
(* without a remote call.                                                  *)
(***************************************************************************)
IsCardsRead(r) == r.tool = "deck_read" /\ r.args.entity = "cards"
DirectMode(r) == IsCardsRead(r) /\ Has(r.args.params, "stackId")

DirectCardReadIgnoresFilters ==
    /\ (Active /\ DirectMode(req)) =>
          /\ Len(calls) = 1
          /\ calls[1].method = "GET"
          /\ calls[1].path = <<"stacks", req.args.params.stackId>>
          /\ (pc = "done" /\ calls[1].st = OkStatus) =>
                /\ result.ok
                /\ result.value = CardsOfStack(remote, req.args.params.stackId)
    /\ (Active /\ IsCardsRead(req) /\ ~DirectMode(req) /\ ~BoardWide(req)) =>
          /\ calls = <<>>
          /\ pc = "done"
          /\ result.kind = "MissingParameter"

DirectCardReadIgnoresFiltersWitness ==
    /\ Active
    /\ DirectMode(req)
    /\ Has(req.args.params, "boardId")
    /\ Has(req.args.params, "search")
    /\ Has(req.args.params, "archived")
    /\ pc = "done"
    /\ result.ok
    /\ \E k \in 1..Len(result.value) : ~Satisfies(result.value[k], req.args.params)

(***************************************************************************)
(* C17  Requests are independent under every interleaving: what a request  *)
(* issues and returns is determined by its own arguments and the responses *)
(* to its own calls.  Each of two requests in flight starts its own scan   *)
(* with the board-list fetch; its write follows its own stack-list fetch   *)
(* that held the card and targets the board of that fetch and the first    *)
(* stack of that response holding the card, wherever another request       *)
(* found the card; its result is the response of its own write, or the     *)
(* error of its own failed call, or not-found when none of its own         *)
(* stack-list responses held the card.                                     *)
(***************************************************************************)
HoldingIn(sl, c) ==
    {i \in 1..Len(sl) : \E j \in 1..Len(sl[i].cards) : sl[i].cards[j].id = c}

Least(S) == CHOOSE i \in S : \A j \in S : i <= j

OwnAncestry(f) ==
    LET log == f.calls
        n == Len(log)
        c == f.req.args.id
    IN f.req.tool # "none" =>
        /\ n >= 1
        /\ Wire(log[1]) = getBoards
        /\ \A k \in 2..n : log[k - 1].st = OkStatus
        /\ \A k \in Writes(log) :
              /\ k = n
              /\ k >= 3
              /\ Wire(log[k - 1]) = getStacks(log[k - 1].path[2])
              /\ \E i \in 1..Len(log[1].data) : log[1].data[i].id = log[k - 1].path[2]
              /\ HoldingIn(log[k - 1].data, c) # {}
              /\ log[k].path =
                    <<"boards", log[k - 1].path[2], "stacks",
                      log[k - 1].data[Least(HoldingIn(log[k - 1].data, c))].id,
                      "cards", c>>
        /\ \A k \in 2..n :
              (log[k].method = "GET" /\ k < n /\ log[k + 1].method = "GET") =>
                  HoldingIn(log[k].data, c) = {}
        /\ (f.pc = "done" /\ f.result.ok) =>
              /\ Writes(log) = {n}
              /\ log[n].st = OkStatus
        /\ (f.pc = "done" /\ ~f.result.ok) =>
              \/ /\ log[n].st \in FailStatuses
                 /\ f.result.kind = "RemoteError"
                 /\ f.result.status = log[n].st
              \/ /\ log[n].st = OkStatus
                 /\ Writes(log) = {}
                 /\ f.result.kind = "NotFound"
                 /\ \A k \in 2..n : HoldingIn(log[k].data, c) = {}
        /\ f.pc # "done" => f.result = NoResult /\ log[n].st = 0

RequestsAreIndependent ==
    /\ OwnAncestry(Running)
    /\ OwnAncestry(other)

RequestsAreIndependentWitness ==
    /\ other.pc = "done"
    /\ other.result.ok
    /\ other.req.tool = "deck_update"
    /\ pc = "done"
    /\ result.ok
    /\ req.tool = "deck_update"
    /\ calls[Len(calls)].path # other.calls[Len(other.calls)].path
    /\ calls[Len(calls)].path[2] # other.calls[Len(other.calls)].path[2]
    /\ calls[Len(calls)].path[4] = remote.at[1]
    /\ BoardListFetches(calls) = 1
    /\ BoardListFetches(other.calls) = 1

(***************************************************************************)
(* C21  Card update with exactly one of boardId/stackId supplied in data   *)
(* still scans: it starts with the board-list fetch, its PUT targets the   *)
(* board and stack that hold the card, not the supplied id, and when no    *)
(* stack holds the card it ends in not-found after fetching the stacks of  *)
(* every board, without a write.                                           *)
(***************************************************************************)
OneAncestorSupplied(r) ==
    /\ IsCardUpdate(r)
    /\ Falsy(r.args.data, "boardId") # Falsy(r.args.data, "stackId")

PartialAncestryIsRescanned ==
    (Active /\ OneAncestorSupplied(req)) =>
        LET c == deckHandlers(req).data.cardId IN
        /\ deckHandlers(req).t = "scan"
        /\ Len(calls) >= 1
        /\ Wire(calls[1]) = getBoards
        /\ \A k \in Writes(calls) :
              /\ k = Len(calls)
              /\ k >= 3
              /\ CardExists(remote, c)
              /\ calls[k].method = "PUT"
              /\ calls[k].path = <<"boards", BoardOf(remote.at[c]),
                                   "stacks", remote.at[c], "cards", c>>
        /\ (pc = "done" /\ FailedCalls(calls) = {} /\ ~CardExists(remote, c)) =>
              /\ result.kind = "NotFound"
              /\ Writes(calls) = {}
              /\ Len(calls) = 1 + remote.nb
        /\ (pc = "done" /\ FailedCalls(calls) = {} /\ CardExists(remote, c)) =>
              Writes(calls) # {}

PartialAncestryIsRescannedWitness ==
    /\ Active
    /\ OneAncestorSupplied(req)
    /\ Has(req.args.data, "boardId")
    /\ pc = "done"
    /\ result.ok
    /\ Writes(calls) = {Len(calls)}
    /\ calls[Len(calls)].path[2] # req.args.data.boardId
    /\ calls[Len(calls)].path[4] = remote.at[req.args.id]
====
